---- MODULE Spec2Model ----
(***************************************************************************)
(* The TodoList component of src/client/components/TodoList.tsx, together  *)
(* with the two collaborators its behaviour depends on: the todo backend   *)
(* (a table of todos) and the query/mutation client that carries the       *)
(* component's requests (one cache entry and at most one running fetch per *)
(* query key, options-level onSuccess callbacks run for every mutation).   *)
(*                                                                         *)
(* A list of todos is a function from ids to "pending", "completed" or     *)
(* "absent"; the order of the list plays no part in any property below.    *)
(***************************************************************************)
EXTENDS Integers, FiniteSets, Sequences, TLC

\* ---- bounds ------------------------------------------------------------
NumTodos == 2          \* ids of the backend table, 1..NumTodos
MaxMutations == 2      \* checkbox and delete clicks in a behaviour of Spec
MaxTabClicks == 2      \* tab clicks in a behaviour of Spec
MaxMutationsOne == 3   \* the same in a behaviour of SpecOneTodo
MaxTabClicksOne == 2

Ids == 1..NumTodos

\* ---- types of the component --------------------------------------------
\* type Tab = 'completed' | 'pending' | 'all'; const tabs = ['all', ...]
tabs == {"all", "completed", "pending"}
Statuses == {"completed", "pending"}
\* the three argument values {statuses: listStatus} the query is called with
Keys == {{"completed", "pending"}, {"completed"}, {"pending"}}

NoTodos == [i \in Ids |-> "absent"]
NoData == [has |-> FALSE, data |-> NoTodos]
IdleFetch == [stage |-> "idle", snap |-> NoTodos]
SentFetch == [stage |-> "sent", snap |-> NoTodos]

VARIABLES
    backend,        \* the todo table: id -> "pending" | "completed" | "deleted"
    activeTab,      \* useState<Tab>('all')
    listStatus,     \* useState(['completed', 'pending']), the query argument
    queryCache,     \* per query key: the data of api.todo.getAll.useQuery
    fetching,       \* per query key: the fetch in flight, if any
    mutations,      \* update and delete mutations in flight
    mutationsLeft,  \* checkbox and delete clicks left (numbers the mutations)
    isChecked,      \* per mounted TodoItem: useState(todo.completed)
    tabClicksLeft,  \* tab clicks left
    lastClicked,    \* history: the tab clicked last ("all" before any click)
    awaiting,       \* history: per key, deleted ids whose refetch is running
    gone,           \* history: deleted ids whose refetch has completed
    lastIssued,     \* history: per id, status of the last update issued since
                    \*   a refetch last completed ("none" if there is none)
    lastIssuedShown \* history: the same, also reset by a tab click

vars == <<backend, activeTab, listStatus, queryCache, fetching, mutations,
          mutationsLeft, isChecked, tabClicksLeft, lastClicked, awaiting, gone,
          lastIssued, lastIssuedShown>>

\* ---- the rendered list -------------------------------------------------
\* (variant: the list of tab 'all' stays on display while the data of a
\* new tab is loading)
TodosOfKeepPrevious(cache, key) ==
    IF cache[key].has THEN cache[key].data
    ELSE IF cache[{"completed", "pending"}].has
         THEN cache[{"completed", "pending"}].data
         ELSE NoTodos

\* const { data: todos = [] } = useQuery({ statuses: listStatus }): the data
\* cached for the current arguments, the empty list while there is none.
TodosOf(cache, key) == IF cache[key].has THEN cache[key].data ELSE NoTodos

todos == TodosOf(queryCache, listStatus)

ShownIds(list) == {i \in Ids : list[i] # "absent"}

DisplayedIds == ShownIds(todos)

\* (variant: every render sets the flag of every item from its status)
RenderResync(old, oldList, newList) ==
    [i \in Ids |-> newList[i] = "completed"]

\* todos.map(todo => <TodoItem key={todo.id} todo={{...todo, completed}} />)
\* A TodoItem whose key stays in the list stays mounted and keeps its state;
\* one that enters the list is mounted with useState(todo.completed); the
\* state of an unmounted item is gone (kept FALSE here).
Render(old, oldList, newList) ==
    [i \in Ids |->
        IF newList[i] = "absent" THEN FALSE
        ELSE IF oldList[i] # "absent" THEN old[i]
        ELSE newList[i] = "completed"]

\* ---- the backend -------------------------------------------------------
\* api.todo.getAll({statuses}): the todos whose status is among statuses
GetAll(table, statuses) ==
    [i \in Ids |-> IF table[i] \in statuses THEN table[i] ELSE "absent"]

\* ---- the query client --------------------------------------------------
InFlight(f) == f.stage # "idle"

\* refetchGetAll(): observer.refetch of the current query, cancelRefetch on:
\* a running fetch of a query that has data is cancelled and a new one
\* started; a running fetch of a query without data is joined.
Refetch(fs, cache, key) ==
    IF InFlight(fs[key]) /\ ~cache[key].has
    THEN fs
    ELSE [fs EXCEPT ![key] = SentFetch]

\* The observer moves to another query key: it fetches (data is stale at
\* once) unless a fetch of that key is already running, which it joins.
Subscribe(fs, oldKey, newKey) ==
    IF newKey # oldKey /\ ~InFlight(fs[newKey])
    THEN [fs EXCEPT ![newKey] = SentFetch]
    ELSE fs

\* ---- handlers of TodoList ----------------------------------------------
\* (variant: the argument does not follow the tab)
ListStatusAlwaysAll(type) == {"completed", "pending"}

\* setListStatus(type === 'all' ? ['completed', 'pending'] : [type])
ListStatusFor(type) ==
    IF type = "all" THEN {"completed", "pending"} ELSE {type}

\* (variant: the status is computed from the item's isChecked flag)
ToggledFromChecked(list, id) ==
    IF isChecked[id] THEN "pending" ELSE "completed"

\* const currentStatus = todos.find(t => t.id === id)?.status ?? 'pending'
\* handleUpdateStatus(id, currentStatus === 'pending' ? 'completed' : 'pending')
\* (the status handleToggleTodoStatus(id) asks the backend for)
handleToggleTodoStatus(list, id) ==
    LET currentStatus == IF list[id] = "absent" THEN "pending" ELSE list[id]
    IN  IF currentStatus = "pending" THEN "completed" ELSE "pending"

\* The component right after its first render: tab 'all', no data yet, the
\* first getAll request on its way, no TodoItem mounted.
Mounted ==
    /\ activeTab = "all"
    /\ listStatus = {"completed", "pending"}
    /\ queryCache = [k \in Keys |-> NoData]
    /\ fetching = [k \in Keys |->
                     IF k = {"completed", "pending"} THEN SentFetch
                     ELSE IdleFetch]
    /\ mutations = {}
    /\ isChecked = [i \in Ids |-> FALSE]
    /\ lastClicked = "all"
    /\ awaiting = [k \in Keys |-> {}]
    /\ gone = {}
    /\ lastIssued = [i \in Ids |-> "none"]
    /\ lastIssuedShown = [i \in Ids |-> "none"]

\* Every todo of the table exists, in either status.
Init ==
    /\ Mounted
    /\ backend \in [Ids -> Statuses]
    /\ mutationsLeft = MaxMutations
    /\ tabClicksLeft = MaxTabClicks

\* A table that holds todo 1 alone, and a longer run of clicks.
InitOneTodo ==
    /\ Mounted
    /\ backend \in {t \in [Ids -> Statuses \cup {"deleted"}] :
                       t[1] # "deleted" /\ \A i \in Ids \ {1} : t[i] = "deleted"}
    /\ mutationsLeft = MaxMutationsOne
    /\ tabClicksLeft = MaxTabClicksOne

\* handleClickTab(type), from the onClick of a Tabs.Trigger
handleClickTab(type) ==
    /\ tabClicksLeft > 0
    /\ tabClicksLeft' = tabClicksLeft - 1
    /\ activeTab' = type
    /\ listStatus' = ListStatusFor(type)
    /\ fetching' = Subscribe(fetching, listStatus, listStatus')
    /\ isChecked' = Render(isChecked, todos, TodosOf(queryCache, listStatus'))
    /\ lastClicked' = type
    /\ lastIssuedShown' = [i \in Ids |-> "none"]
    /\ UNCHANGED <<backend, queryCache, mutations, mutationsLeft, awaiting,
                   gone, lastIssued>>

\* handleCheckboxClick of the TodoItem of id: setIsChecked(!isChecked), then
\* handleToggleTodoStatus(id) -> updateStatus({todoId: id, status})
handleCheckboxClick(id) ==
    /\ id \in DisplayedIds
    /\ mutationsLeft > 0
    /\ mutationsLeft' = mutationsLeft - 1
    /\ isChecked' = [isChecked EXCEPT ![id] = ~isChecked[id]]
    /\ LET status == handleToggleTodoStatus(todos, id)
       IN  /\ mutations' = mutations \cup
                 {[n |-> mutationsLeft, kind |-> "update", id |-> id,
                   status |-> status, stage |-> "sent",
                   before |-> backend[id], after |-> "none",
                   prev |-> lastIssued[id]]}
           /\ lastIssued' = [lastIssued EXCEPT ![id] = status]
           /\ lastIssuedShown' = [lastIssuedShown EXCEPT ![id] = status]
    /\ UNCHANGED <<backend, activeTab, listStatus, queryCache, fetching,
                   tabClicksLeft, lastClicked, awaiting, gone>>

\* handleDeleteTodo(id), from the onClick of the item's button
handleDeleteTodo(id) ==
    /\ id \in DisplayedIds
    /\ mutationsLeft > 0
    /\ mutationsLeft' = mutationsLeft - 1
    /\ mutations' = mutations \cup
          {[n |-> mutationsLeft, kind |-> "delete", id |-> id,
            status |-> "deleted", stage |-> "sent",
            before |-> backend[id], after |-> "none", prev |-> "none"]}
    /\ UNCHANGED <<backend, activeTab, listStatus, queryCache, fetching,
                   isChecked, tabClicksLeft, lastClicked, awaiting, gone,
                   lastIssued, lastIssuedShown>>

\* The backend runs a mutation: it sets the status (or removes the todo) of
\* an existing todo, and answers with an error for a todo that is gone.
ServerMutation(m) ==
    /\ m.stage = "sent"
    /\ IF backend[m.id] = "deleted"
       THEN /\ mutations' = (mutations \ {m}) \cup {[m EXCEPT !.stage = "err"]}
            /\ UNCHANGED backend
       ELSE /\ mutations' = (mutations \ {m}) \cup
                              {[m EXCEPT !.stage = "ok", !.after = m.status]}
            /\ backend' = [backend EXCEPT ![m.id] = m.status]
    /\ UNCHANGED <<activeTab, listStatus, queryCache, fetching, mutationsLeft,
                   isChecked, tabClicksLeft, lastClicked, awaiting, gone,
                   lastIssued, lastIssuedShown>>

\* useMutation({ onSuccess: () => refetchGetAll() }), for both mutations
onSuccess(m) ==
    /\ m.stage = "ok"
    /\ mutations' = mutations \ {m}
    /\ fetching' = Refetch(fetching, queryCache, listStatus)
    /\ awaiting' = IF m.kind = "delete"
                   THEN [awaiting EXCEPT ![listStatus] = @ \cup {m.id}]
                   ELSE awaiting
    /\ UNCHANGED <<backend, activeTab, listStatus, queryCache, mutationsLeft,
                   isChecked, tabClicksLeft, lastClicked, gone, lastIssued,
                   lastIssuedShown>>

\* (variant: an error refetches the list, as onSettled would)
MutationErrorRefetches(m) ==
    /\ m.stage \in {"sent", "err"}
    /\ mutations' = mutations \ {m}
    /\ fetching' = Refetch(fetching, queryCache, listStatus)
    /\ UNCHANGED <<backend, activeTab, listStatus, queryCache, mutationsLeft,
                   isChecked, tabClicksLeft, lastClicked, awaiting, gone,
                   lastIssued, lastIssuedShown>>

\* A mutation ends in an error: the request never reached the backend, or
\* the backend answered with an error.  No onError is given, and mutations
\* are not retried.
MutationError(m) ==
    /\ m.stage \in {"sent", "err"}
    /\ mutations' = mutations \ {m}
    /\ UNCHANGED <<backend, activeTab, listStatus, queryCache, fetching,
                   mutationsLeft, isChecked, tabClicksLeft, lastClicked, awaiting,
                   gone, lastIssued, lastIssuedShown>>

\* The backend answers a getAll request from the table as it is now.
ServerGetAll(key) ==
    /\ fetching[key].stage = "sent"
    /\ fetching' = [fetching EXCEPT
                      ![key] = [stage |-> "served", snap |-> GetAll(backend, key)]]
    /\ UNCHANGED <<backend, activeTab, listStatus, queryCache, mutations,
                   mutationsLeft, isChecked, tabClicksLeft, lastClicked, awaiting,
                   gone, lastIssued, lastIssuedShown>>

\* The answer arrives: it becomes the data of its query, and the component
\* renders again if that is the current query.
QuerySuccess(key) ==
    /\ fetching[key].stage = "served"
    /\ queryCache' = [queryCache EXCEPT
                        ![key] = [has |-> TRUE, data |-> fetching[key].snap]]
    /\ fetching' = [fetching EXCEPT ![key] = IdleFetch]
    /\ isChecked' = Render(isChecked, todos, TodosOf(queryCache', listStatus))
    /\ gone' = gone \cup awaiting[key]
    /\ awaiting' = [awaiting EXCEPT ![key] = {}]
    /\ lastIssued' = [i \in Ids |-> "none"]
    /\ lastIssuedShown' = [i \in Ids |-> "none"]
    /\ UNCHANGED <<backend, activeTab, listStatus, mutations, mutationsLeft,
                   tabClicksLeft, lastClicked>>

Next ==
    \/ \E type \in tabs : handleClickTab(type)
    \/ \E id \in Ids : handleCheckboxClick(id)
    \/ \E id \in Ids : handleDeleteTodo(id)
    \/ \E m \in mutations : ServerMutation(m)
    \/ \E m \in mutations : onSuccess(m)
    \/ \E m \in mutations : MutationError(m)
    \/ \E key \in Keys : ServerGetAll(key)
    \/ \E key \in Keys : QuerySuccess(key)

Spec == Init /\ [][Next]_vars

SpecOneTodo == InitOneTodo /\ [][Next]_vars

\* ---- properties --------------------------------------------------------
Flip(status) == IF status = "pending" THEN "completed" ELSE "pending"

NoFetchInFlight == \A k \in Keys : ~InFlight(fetching[k])

NoUpdateInFlight == \A m \in mutations : m.kind # "update"

\* C1: whenever no status update and no fetch of the list is in flight, each
\* displayed todo that the backend holds has its checkbox checked exactly
\* when its backend status is 'completed'.
C1_CheckboxShowsBackendStatus ==
    (NoUpdateInFlight /\ NoFetchInFlight) =>
        \A i \in DisplayedIds :
            backend[i] \in Statuses =>
                (isChecked[i] <=> backend[i] = "completed")

\* C2: a todo whose delete succeeded and whose refetch, triggered by that
\* success, has completed is not in the displayed list, now or later,
\* whichever tab is active.
C2_DeletedStaysRemoved == \A i \in gone : i \notin DisplayedIds

\* C3: every displayed todo carries a status that belongs to listStatus, and
\* so to the active tab: only pending ones under 'pending', only completed
\* ones under 'completed'; also while the query of the new tab is running.
C3_DisplayedMatchesTab ==
    \A i \in DisplayedIds :
        /\ todos[i] \in listStatus
        /\ activeTab = "pending" => todos[i] = "pending"
        /\ activeTab = "completed" => todos[i] = "completed"
        /\ activeTab = "all" => todos[i] \in {"pending", "completed"}

\* a stale record is on display under 'completed' while the refetch runs
C3_Witness ==
    /\ activeTab = "completed"
    /\ InFlight(fetching[listStatus])
    /\ \E i \in DisplayedIds : backend[i] = "pending"
    /\ \E i \in Ids : i \notin DisplayedIds /\ backend[i] = "pending"

\* C4: an update the backend has applied left the todo in the status opposite
\* to the one the backend held when the checkbox was clicked.
C4_UpdateFlipsBackendStatus ==
    \A m \in mutations :
        (m.kind = "update" /\ m.stage = "ok") => m.after = Flip(m.before)

\* C5: every successful mutation refetches the list and so, once nothing is
\* in flight (no mutation, no fetch), the displayed list is the backend's
\* todos whose status is in listStatus, same ids and same statuses.
C5_QuiescentListInSync ==
    (mutations = {} /\ NoFetchInFlight) => todos = GetAll(backend, listStatus)

\* C6: listStatus is the argument of the active tab: both statuses for 'all',
\* the one status for 'completed' and for 'pending'; it is never empty; and
\* the active tab is the tab clicked last ('all' before any click).
C6_TabDeterminesListStatus ==
    /\ activeTab = "all" => listStatus = {"completed", "pending"}
    /\ activeTab = "completed" => listStatus = {"completed"}
    /\ activeTab = "pending" => listStatus = {"pending"}
    /\ listStatus # {}
    /\ activeTab = lastClicked

\* two tab clicks and a mutation later, the 'pending' tab is active
C6_Witness ==
    /\ activeTab = "pending"
    /\ listStatus = {"pending"}
    /\ tabClicksLeft = 0
    /\ mutationsLeft < MaxMutations
    /\ DisplayedIds # {}

\* the step is a click on a checkbox or on a delete button
Clicked == mutationsLeft' = mutationsLeft - 1

\* the step is a click on the checkbox of item i
ClickedCheckbox(i) ==
    /\ Clicked
    /\ \E m \in mutations' : m.n = mutationsLeft /\ m.kind = "update" /\ m.id = i

\* the step ends mutation m in an error
EndedInError(m) ==
    /\ m.stage \in {"sent", "err"}
    /\ \A m2 \in mutations' : m2.n # m.n

\* C7 (as amended): a click on the checkbox of a displayed item issues exactly
\* one update, for that item, whose status is computed from the displayed
\* list: 'pending' when the list holds the item as 'completed', 'completed'
\* otherwise; and it carries the same status as the update issued by the
\* click before it on that item when no fetch has completed and no tab has
\* been clicked in between.
C7_StatusFromDisplayedList ==
    [][\A i \in Ids :
         (Clicked /\ isChecked'[i] # isChecked[i]) =>
            /\ mutations \subseteq mutations'
            /\ Cardinality(mutations' \ mutations) = 1
            /\ \A m \in mutations' \ mutations :
                  /\ m.kind = "update" /\ m.id = i /\ m.stage = "sent"
                  /\ m.status = IF todos[i] = "completed"
                                THEN "pending" ELSE "completed"
                  /\ lastIssuedShown[i] # "none" => m.status = lastIssuedShown[i]
      ]_vars

\* two updates of the same item with the same status are in flight, and the
\* item's checkbox is back where it was
C7_Witness ==
    \E m1, m2 \in mutations :
        /\ m1.n # m2.n /\ m1.kind = "update" /\ m2.kind = "update"
        /\ m1.id = m2.id /\ m1.status = m2.status
        /\ m1.stage = "sent" /\ m2.stage = "sent"
        /\ todos[m1.id] = Flip(m1.status)
        /\ isChecked[m1.id] = (todos[m1.id] = "completed")

\* C7 (as stated): two clicks on the same item with no fetch completing in
\* between issue two updates that carry the same status.
C7_SameStatusUntilRefetch ==
    \A m \in mutations :
        (m.kind = "update" /\ m.prev # "none") => m.status = m.prev

C9_FailedMutationChangesNothing ==
    [][/\ Clicked => (todos' = todos /\ queryCache' = queryCache)
       /\ \A m \in mutations :
         EndedInError(m) =>
            /\ fetching' = fetching
            /\ queryCache' = queryCache
            /\ todos' = todos
            /\ DisplayedIds' = DisplayedIds
            /\ activeTab' = activeTab
            /\ listStatus' = listStatus
            /\ mutations' = mutations \ {m}
            /\ mutationsLeft' = mutationsLeft
            /\ isChecked' = isChecked
            /\ backend' = backend
      ]_vars

\* the only mutation issued, an update, has ended in an error: the item is
\* displayed as the backend holds it, its flag is negated, nothing is in
\* flight
C9_Witness ==
    /\ mutationsLeft = MaxMutations - 1
    /\ mutations = {}
    /\ NoFetchInFlight
    /\ tabClicksLeft = MaxTabClicks
    /\ \A i \in Ids : todos[i] = backend[i]
    /\ \E i \in Ids : isChecked[i] # (backend[i] = "completed")

====
